---- MODULE Spec2Model ----
(***************************************************************************)
(* Model of MasterParser (src/master_parser.py): the parallel directory    *)
(* scan, the duration filter, the progress checkpoints and the resume      *)
(* planning of parse().                                                    *)
(*                                                                         *)
(* A directory is a number d; its audio files, in the sorted order         *)
(* librosa.util.find_files returns them, are the paths <<d, 1>>, <<d, 2>>, *)
(* ...; os.path.dirname of <<d, k>> is d (one level of directories).       *)
(* min_duration is a positive rational <<numerator, denominator>>;         *)
(* float rounding of min_duration * sample_rate is not modelled.           *)
(* Pool.starmap is modelled as CPython >= 3.8 runs it: every task runs,    *)
(* in any interleaving, the call returns when all of them have ended and   *)
(* re-raises the exception of a task that failed.                          *)
(***************************************************************************)
EXTENDS Integers, Sequences, FiniteSets, TLC

\* ---------------------------------------------------------------- bounds
NumDirs == 3
MaxFiles == 21

\* ------------------------------------------------------ program constants
\* the divisor of the checkpoint cadence, len(audio_files) // 10
Tenth == 10
\* the label of the snapshot written after the loop, "_progress100"
Complete == 100

\* `limit=None` and `last_file_path=None`
NoLimit == -1

Dirs == 1..NumDirs

Range(s) == {s[k] : k \in 1..Len(s)}

Min(a, b) == IF a <= b THEN a ELSE b

IsPrefix(s, t) == Len(s) <= Len(t) /\ \A k \in 1..Len(s) : s[k] = t[k]

\* ------------------------------------------------------------- file system
\* what torchaudio.info reports for a file; ok = FALSE: the probe raises
Corrupt == [ok |-> FALSE, sample_rate |-> 0, num_frames |-> 0]

Kinds ==
  << [ok |-> TRUE, sample_rate |-> 2, num_frames |-> 3],
     [ok |-> TRUE, sample_rate |-> 3, num_frames |-> 4],
     [ok |-> TRUE, sample_rate |-> 2, num_frames |-> 2],
     [ok |-> TRUE, sample_rate |-> 3, num_frames |-> 6] >>

\* a directory of n files: file number bad (if any) is corrupt, the others
\* cycle through Kinds starting after shift
DirContent(n, bad, shift) ==
  [k \in 1..n |-> IF k = bad THEN Corrupt ELSE Kinds[((k + shift) % Len(Kinds)) + 1]]

\* min_duration: 0.5 s, 1.5 s and 2 s
MinDurations == { <<1, 2>>, <<3, 2>>, <<2, 1>> }

VARIABLES
  fs,               \* fs[d]: the probe results of the files of directory d, sorted
  subdirs,          \* the immediate subdirectories of base_directory
  min_duration,     \* self.min_duration, <<num, den>>
  limit,            \* self.limit, NoLimit for None
  last_file_path,   \* "None", "csv" (a readable manifest) or "unreadable"
  prior_csv,        \* the file_path column of the manifest at last_file_path
  directories_arg,  \* the argument of parse(): [given, dirs]
  pc,               \* parse(): "init", "pool", "done", "error"
  directories,      \* the work list built by parse()
  task,             \* task[d]: the worker call for directory d
  ckpt_csv,         \* {name}_limit={..}_progress{N}.csv, by N
  ckpt_npy,         \* {name}_limit={..}_progress{N}.npy, by N
  final_csv,        \* {name}_limit={..}.csv
  final_npy,        \* {name}_limit={..}.npy
  emitted,          \* history: the snapshots each worker call wrote, in order
  probed            \* history: the files each worker call gave to torchaudio.info

vars == << fs, subdirs, min_duration, limit, last_file_path, prior_csv,
           directories_arg, pc, directories, task, ckpt_csv, ckpt_npy,
           final_csv, final_npy, emitted, probed >>

config == << fs, subdirs, min_duration, limit, last_file_path, prior_csv,
             directories_arg >>

\* ------------------------------------------------------------ pure helpers
dirname(f) == f[1]

\* every audio file below directory d, sorted
AllFiles(d) == [k \in 1..Len(fs[d]) |-> <<d, k>>]

\* find_files that ignores its limit
FindFilesUncut(d, lim) == AllFiles(d)

\* librosa.util.find_files(directory, ext=..., limit=limit): sorted, cut to limit
FindFiles(d, lim) ==
  IF lim = NoLimit THEN AllFiles(d) ELSE SubSeq(AllFiles(d), 1, Min(lim, Len(AllFiles(d))))

Info(f) == fs[f[1]][f[2]]

\* int(min_duration * info.sample_rate): truncation of a positive product
MinLength(md, sample_rate) == (md[1] * sample_rate) \div md[2]

\* info.num_frames >= min_length
Keeps(md, info) == info.num_frames >= MinLength(md, info.sample_rate)

\* Python 3 round() of the fraction num/den: to nearest, ties to even
PyRound(num, den) ==
  LET q == num \div den
      r == num % den
  IN  IF 2 * r < den THEN q
      ELSE IF 2 * r > den THEN q + 1
      ELSE IF q % 2 = 0 THEN q ELSE q + 1

\* the percentage of the files still to come
ProgressRemaining(done, total) == PyRound(100 * (total - done), total)

\* round((i + 1) / len(audio_files) * 100)
Progress(done, total) == PyRound(100 * done, total)

\* the files of a sequence the filter keeps, in order
RECURSIVE FilterSeq(_, _)
FilterSeq(md, files) ==
  IF files = << >> THEN << >>
  ELSE LET f == Head(files)
           rest == FilterSeq(md, Tail(files))
       IN  IF Info(f).ok /\ Keeps(md, Info(f)) THEN << f >> \o rest ELSE rest

\* [file for sublist in results for file in sublist]
RECURSIVE Flatten(_, _)
Flatten(order, results) ==
  IF order = << >> THEN << >>
  ELSE results[Head(order)] \o Flatten(Tail(order), results)

\* the orders in which a set of directories can be listed
Orders(S) ==
  {s \in [1..Cardinality(S) -> S] : \A a, b \in 1..Cardinality(S) : a # b => s[a] # s[b]}

\* a write that adds to what the file holds instead of replacing it
WriteAppend(store, label, paths) ==
  [p \in (DOMAIN store) \cup {label} |->
     IF p = label
     THEN (IF label \in DOMAIN store THEN store[label] ELSE << >>) \o paths
     ELSE store[p]]

\* to_csv / np.save to the file of a label: the whole file is replaced
Write(store, label, paths) ==
  [p \in (DOMAIN store) \cup {label} |-> IF p = label THEN paths ELSE store[p]]

Idle == [status |-> "none", audio_files |-> << >>, i |-> 0, filtered_files |-> << >>]

NoStore == [p \in {} |-> << >>]

NoFile == [written |-> FALSE, paths |-> << >>]

\* ------------------------------------------------------------------ worker
\* the paths worker() returns for directory d if it runs to its end
Kept(d) == FilterSeq(min_duration, FindFiles(d, limit))

\* worker() runs to its end on d: the cadence divisor is not 0 when it is used
Scannable(d) ==
  LET af == FindFiles(d, limit)
  IN  Len(af) \div Tenth > 0 \/ \A k \in 1..Len(af) : ~Info(af[k]).ok

\* the increasing listing of a set of directories
Sorted(S) == CHOOSE s \in Orders(S) : \A a, b \in 1..Cardinality(S) : a < b => s[a] < s[b]

\* the manifest an earlier run over the directories P left behind
ManifestOf(P) == Flatten(Sorted(P), [d \in Dirs |-> Kept(d)])

\* a pool process picks the task up: filtered_files = [], find_files(...)
WorkerStart(d) ==
  /\ pc = "pool"
  /\ task[d].status = "queued"
  /\ task' = [task EXCEPT ![d] = [status |-> "running",
                                  audio_files |-> FindFiles(d, limit),
                                  i |-> 0,
                                  filtered_files |-> << >>]]
  /\ UNCHANGED << config, pc, directories, ckpt_csv, ckpt_npy, final_csv,
                  final_npy, emitted, probed >>

\* one iteration whose probe raises: except ...: continue
WorkerSkip(d) ==
  LET t == task[d] IN
  /\ pc = "pool"
  /\ t.status = "running"
  /\ t.i < Len(t.audio_files)
  /\ ~Info(t.audio_files[t.i + 1]).ok
  /\ task' = [task EXCEPT ![d].i = t.i + 1]
  /\ probed' = [probed EXCEPT ![d] = Append(@, t.audio_files[t.i + 1])]
  /\ UNCHANGED << config, pc, directories, ckpt_csv, ckpt_npy, final_csv,
                  final_npy, emitted >>

\* filtered_files after the try block of one iteration
AfterFilter(t) ==
  LET file == t.audio_files[t.i + 1]
  IN  IF Keeps(min_duration, Info(file))
      THEN Append(t.filtered_files, file)
      ELSE t.filtered_files

\* one iteration whose probe succeeds in a directory of fewer than ten
\* files: (i + 1) % (len(audio_files) // 10) raises ZeroDivisionError
WorkerRaise(d) ==
  LET t == task[d] IN
  /\ pc = "pool"
  /\ t.status = "running"
  /\ t.i < Len(t.audio_files)
  /\ Info(t.audio_files[t.i + 1]).ok
  /\ Len(t.audio_files) \div Tenth = 0
  /\ task' = [task EXCEPT ![d].status = "failed",
                          ![d].filtered_files = AfterFilter(t)]
  /\ probed' = [probed EXCEPT ![d] = Append(@, t.audio_files[t.i + 1])]
  /\ UNCHANGED << config, pc, directories, ckpt_csv, ckpt_npy, final_csv,
                  final_npy, emitted >>

\* one iteration whose probe succeeds: filter, then the cadence check and,
\* when it is due, the intermediate snapshot
WorkerIterate(d) ==
  LET t == task[d]
      total == Len(t.audio_files)
      kept == AfterFilter(t)
      due == (t.i + 1) % (total \div Tenth) = 0
      progress == Progress(t.i + 1, total)
  IN
  /\ pc = "pool"
  /\ t.status = "running"
  /\ t.i < total
  /\ Info(t.audio_files[t.i + 1]).ok
  /\ total \div Tenth # 0
  /\ task' = [task EXCEPT ![d].i = t.i + 1, ![d].filtered_files = kept]
  /\ probed' = [probed EXCEPT ![d] = Append(@, t.audio_files[t.i + 1])]
  /\ IF due
     THEN /\ ckpt_csv' = Write(ckpt_csv, progress, kept)
          /\ ckpt_npy' = Write(ckpt_npy, progress, kept)
          /\ emitted' = [emitted EXCEPT ![d] =
                           Append(@, [progress |-> progress, paths |-> kept])]
     ELSE UNCHANGED << ckpt_csv, ckpt_npy, emitted >>
  /\ UNCHANGED << config, pc, directories, final_csv, final_npy >>

\* a return that writes the final snapshot only when the loop ran
WorkerFinishIfAny(d) ==
  LET t == task[d] IN
  /\ pc = "pool"
  /\ t.status = "running"
  /\ t.i = Len(t.audio_files)
  /\ IF t.audio_files # << >>
     THEN /\ ckpt_csv' = Write(ckpt_csv, Complete, t.filtered_files)
          /\ ckpt_npy' = Write(ckpt_npy, Complete, t.filtered_files)
          /\ emitted' = [emitted EXCEPT ![d] =
                           Append(@, [progress |-> Complete, paths |-> t.filtered_files])]
     ELSE UNCHANGED << ckpt_csv, ckpt_npy, emitted >>
  /\ task' = [task EXCEPT ![d].status = "done"]
  /\ UNCHANGED << config, pc, directories, final_csv, final_npy, probed >>

\* after the loop: the _progress100 snapshot, return filtered_files
WorkerFinish(d) ==
  LET t == task[d] IN
  /\ pc = "pool"
  /\ t.status = "running"
  /\ t.i = Len(t.audio_files)
  /\ ckpt_csv' = Write(ckpt_csv, Complete, t.filtered_files)
  /\ ckpt_npy' = Write(ckpt_npy, Complete, t.filtered_files)
  /\ emitted' = [emitted EXCEPT ![d] =
                   Append(@, [progress |-> Complete, paths |-> t.filtered_files])]
  /\ task' = [task EXCEPT ![d].status = "done"]
  /\ UNCHANGED << config, pc, directories, final_csv, final_npy, probed >>

\* ------------------------------------------------------------------- parse
\* set(os.path.dirname(f) for f in audio_df["file_path"].values)
ProcessedDirectories == {dirname(f) : f \in Range(prior_csv)}

\* a work list that takes the explicit list without the subtraction
PlanDirectoriesNoSubtract ==
  IF last_file_path # "None"
  THEN IF directories_arg.given
       THEN directories_arg.dirs
       ELSE ProcessedDirectories
  ELSE subdirs

\* the work list of parse()
PlanDirectories ==
  IF last_file_path # "None"
  THEN IF directories_arg.given
       THEN directories_arg.dirs \ ProcessedDirectories
       ELSE ProcessedDirectories
  ELSE subdirs

\* pd.read_csv(self.last_file_path) raises
ParseReadFail ==
  /\ pc = "init"
  /\ last_file_path = "unreadable"
  /\ pc' = "error"
  /\ UNCHANGED << config, directories, task, ckpt_csv, ckpt_npy, final_csv,
                  final_npy, emitted, probed >>

\* a dispatch that does not need the prior manifest to be readable
ParseDispatchUnread ==
  /\ pc = "init"
  /\ directories' = PlanDirectories
  /\ task' = [d \in Dirs |-> IF d \in PlanDirectories
                             THEN [Idle EXCEPT !.status = "queued"]
                             ELSE Idle]
  /\ pc' = "pool"
  /\ UNCHANGED << config, ckpt_csv, ckpt_npy, final_csv, final_npy, emitted,
                  probed >>

\* the work list is built and every directory is handed to the pool
ParseDispatch ==
  /\ pc = "init"
  /\ last_file_path # "unreadable"
  /\ directories' = PlanDirectories
  /\ task' = [d \in Dirs |-> IF d \in PlanDirectories
                             THEN [Idle EXCEPT !.status = "queued"]
                             ELSE Idle]
  /\ pc' = "pool"
  /\ UNCHANGED << config, ckpt_csv, ckpt_npy, final_csv, final_npy, emitted,
                  probed >>

\* a join that waits for every task to return a result
AllReturned == \A d \in directories : task[d].status = "done"

\* starmap's join: every task of the work list has returned or raised
AllEnded == \A d \in directories : task[d].status \in {"done", "failed"}

\* starmap re-raises the exception of a failed task once all have ended
ParseJoinRaise ==
  /\ pc = "pool"
  /\ AllEnded
  /\ \E d \in directories : task[d].status = "failed"
  /\ pc' = "error"
  /\ UNCHANGED << config, directories, task, ckpt_csv, ckpt_npy, final_csv,
                  final_npy, emitted, probed >>

\* an aggregation that does not wait for the tasks: it takes what the
\* workers have kept so far
ParseJoinEarly ==
  /\ pc = "pool"
  /\ \E order \in Orders(directories) :
       LET filtered_files == Flatten(order, [d \in Dirs |-> task[d].filtered_files])
           audio_df == IF last_file_path # "None"
                       THEN prior_csv \o filtered_files
                       ELSE filtered_files
       IN  /\ final_csv' = [written |-> TRUE, paths |-> audio_df]
           /\ final_npy' = [written |-> TRUE, paths |-> filtered_files]
  /\ pc' = "done"
  /\ UNCHANGED << config, directories, task, ckpt_csv, ckpt_npy, emitted, probed >>

\* starmap returns: flatten, append to the prior manifest, write the final
\* .csv (audio_df) and .npy (filtered_files).  The results come in the order
\* of the work list, which os.listdir / set iteration fix arbitrarily.
ParseJoinOk ==
  /\ pc = "pool"
  /\ AllEnded
  /\ \A d \in directories : task[d].status = "done"
  /\ \E order \in Orders(directories) :
       LET filtered_files == Flatten(order, [d \in Dirs |-> task[d].filtered_files])
           audio_df == IF last_file_path # "None"
                       THEN prior_csv \o filtered_files
                       ELSE filtered_files
       IN  /\ final_csv' = [written |-> TRUE, paths |-> audio_df]
           /\ final_npy' = [written |-> TRUE, paths |-> filtered_files]
  /\ pc' = "done"
  /\ UNCHANGED << config, directories, task, ckpt_csv, ckpt_npy, emitted, probed >>

\* ------------------------------------------------------------ specifications
InitRun ==
  /\ pc = "init"
  /\ directories = {}
  /\ task = [d \in Dirs |-> Idle]
  /\ ckpt_csv = NoStore
  /\ ckpt_npy = NoStore
  /\ final_csv = NoFile
  /\ final_npy = NoFile
  /\ emitted = [d \in Dirs |-> << >>]
  /\ probed = [d \in Dirs |-> << >>]

InitResume(choices) ==
  \/ /\ last_file_path = "None"
     /\ prior_csv = << >>
  \/ /\ last_file_path = "unreadable"
     /\ prior_csv = << >>
  \/ /\ last_file_path = "csv"
     /\ \E P \in choices : /\ \A d \in P : Scannable(d)
                           /\ prior_csv = ManifestOf(P)

NotGiven == [given |-> FALSE, dirs |-> {}]

\* a base directory of NumDirs subdirectories, each empty, of two files or
\* of ten, at most one of them of ten
ParseSizes == {0, 2, Tenth}

Layouts == {n \in [Dirs -> ParseSizes] : Cardinality({d \in Dirs : n[d] = Tenth}) <= 1}

Init ==
  /\ subdirs = Dirs
  /\ \E bad \in {0, 1} : \E n \in Layouts :
       fs = [d \in Dirs |-> DirContent(n[d], bad, d)]
  /\ min_duration \in MinDurations
  /\ limit \in {NoLimit, 2}
  /\ InitResume(SUBSET Dirs)
  /\ directories_arg \in {NotGiven} \cup
                         {[given |-> TRUE, dirs |-> D] : D \in {Dirs, {1}, {NumDirs}}}
  /\ InitRun

\* a base directory holding one subdirectory, of every size and content
InitWorker ==
  /\ subdirs = {1}
  /\ \E n \in 0..MaxFiles : \E bad \in 0..n : \E shift \in 0..(Len(Kinds) - 1) :
       fs = [d \in Dirs |-> IF d = 1 THEN DirContent(n, bad, shift) ELSE << >>]
  /\ min_duration \in MinDurations
  /\ limit \in {NoLimit, 2, Tenth, MaxFiles - 1}
  /\ InitResume({{}, {1}})
  /\ directories_arg \in {NotGiven, [given |-> TRUE, dirs |-> {1}]}
  /\ InitRun

\* a base directory whose first two subdirectories hold ten readable files
\* each and are scanned at the same time; the others are empty or hold two
\* files, the first of them corrupt; min_duration is 1.5 s
InitPool ==
  /\ subdirs = Dirs
  /\ \E n \in [Dirs -> {0, 2}] :
       fs = [d \in Dirs |-> IF d <= 2 THEN DirContent(Tenth, 0, d)
                                      ELSE DirContent(n[d], 1, d)]
  /\ min_duration = <<3, 2>>
  /\ limit = NoLimit
  /\ InitResume({{1}})
  /\ directories_arg = NotGiven
  /\ InitRun

Next ==
  \/ ParseReadFail
  \/ ParseDispatch
  \/ \E d \in Dirs : WorkerStart(d)
  \/ \E d \in Dirs : WorkerSkip(d)
  \/ \E d \in Dirs : WorkerRaise(d)
  \/ \E d \in Dirs : WorkerIterate(d)
  \/ \E d \in Dirs : WorkerFinish(d)
  \/ ParseJoinRaise
  \/ ParseJoinOk

Spec == Init /\ [][Next]_vars

SpecWorker == InitWorker /\ [][Next]_vars

SpecPool == InitPool /\ [][Next]_vars

\* the pool's processes and the caller are scheduled by the operating
\* system: a step that can be taken is eventually taken
SpecLive == Init /\ [][Next]_vars /\ WF_vars(Next)

\* ------------------------------------------------------------------ claims
NoDuplicates(s) == \A a, b \in 1..Len(s) : a # b => s[a] # s[b]

Resumed == last_file_path = "csv"

\* frames >= min_duration * sample_rate, over the rationals
MeetsDuration(md, info) == info.num_frames * md[2] >= md[1] * info.sample_rate

\* C1: after any parse() run, fresh or resumed, the final manifest holds
\* each file path at most once.
C1_NoDuplicatePaths ==
  pc = "done" => NoDuplicates(final_csv.paths)

\* C2: in a resumed parse() without an explicit directory list the work set
\* is the subdirectories of the base directory minus the parent directories
\* of the prior manifest's paths, and no worker task is dispatched for a
\* directory that has a path in the prior manifest.
C2_ResumeSkipsProcessed ==
  (Resumed /\ ~directories_arg.given /\ pc # "init") =>
    /\ directories = subdirs \ ProcessedDirectories
    /\ \A d \in Dirs : task[d].status # "none" => d \notin ProcessedDirectories

\* C3: with M the manifest of a full single run, resuming from the manifest
\* of a part of the directories yields a final manifest whose set of paths
\* is the set of paths of M.
C3_ResumeComplete ==
  (pc = "done" /\ Resumed /\ ~directories_arg.given /\ prior_csv # << >>
     /\ \A d \in subdirs : Scannable(d)) =>
    Range(final_csv.paths) = UNION {Range(Kept(d)) : d \in subdirs}

\* C4: every file in the list a worker returns has
\* num_frames >= min_duration * sample_rate with its own probed sample rate,
\* for every min_duration, whole or not.
C4_DurationFilter ==
  \A d \in Dirs : task[d].status = "done" =>
    \A k \in 1..Len(task[d].filtered_files) :
      MeetsDuration(min_duration, Info(task[d].filtered_files[k]))

\* the directory holds exactly one file whose probe fails and N >= 1 files
\* that probe and meet the duration, and all of them are candidates
OneCorruptAmongValid(d) ==
  /\ Len(fs[d]) >= 2
  /\ Len(FindFiles(d, limit)) = Len(fs[d])
  /\ Cardinality({k \in 1..Len(fs[d]) : ~fs[d][k].ok}) = 1
  /\ \A k \in 1..Len(fs[d]) : fs[d][k].ok => MeetsDuration(min_duration, fs[d][k])

\* C5: a directory of one corrupt file among N >= 1 valid qualifying files
\* gives a worker result of exactly N paths, and neither the worker nor the
\* parse() run ends in an error.
C5_CorruptFileTolerated ==
  \A d \in Dirs : (OneCorruptAmongValid(d) /\ task[d].status # "none") =>
    /\ task[d].status # "failed"
    /\ pc # "error"
    /\ task[d].status = "done" => Len(task[d].filtered_files) = Len(fs[d]) - 1

\* C6: for a directory of 1 to 9 candidate files the worker does not raise,
\* writes the final snapshot and returns the full filtered list.
C6_SmallDirectoryCompletes ==
  \A d \in Dirs :
    (task[d].status \in {"running", "done", "failed"}
       /\ Len(task[d].audio_files) \in 1..(Tenth - 1)) =>
      /\ task[d].status # "failed"
      /\ task[d].status = "done" =>
           /\ task[d].filtered_files = Kept(d)
           /\ emitted[d] = << [progress |-> Complete, paths |-> Kept(d)] >>

\* C7: the snapshots one worker writes for one directory, the intermediate
\* ones and then the final one, have non-decreasing progress percentages and
\* kept-file counts, and each path list extends the one before.
C7_CheckpointsMonotone ==
  \A d \in Dirs : \A a, b \in 1..Len(emitted[d]) :
    a < b => /\ emitted[d][a].progress <= emitted[d][b].progress
             /\ Len(emitted[d][a].paths) <= Len(emitted[d][b].paths)
             /\ IsPrefix(emitted[d][a].paths, emitted[d][b].paths)

\* a finished scan that wrote intermediate snapshots of growing length and
\* growing percentage before the final one
C7_Witness ==
  \E d \in Dirs :
    /\ task[d].status = "done"
    /\ Len(emitted[d]) >= Tenth + 1
    /\ emitted[d][1].progress < emitted[d][2].progress
    /\ Len(emitted[d][1].paths) < Len(emitted[d][Len(emitted[d])].paths)
    /\ emitted[d][Len(emitted[d])].progress = Complete

\* C8: with a limit set, the probe is invoked on at most limit files of a
\* directory, they are the first limit files in enumeration order, and the
\* files beyond the limit do not influence the result.
C8_LimitRespected ==
  limit # NoLimit =>
    \A d \in Dirs :
      LET first == SubSeq(AllFiles(d), 1, Min(limit, Len(fs[d])))
      IN  /\ Len(probed[d]) <= limit
          /\ IsPrefix(probed[d], first)
          /\ Range(task[d].filtered_files) \subseteq Range(first)
          /\ task[d].status = "done" =>
               task[d].filtered_files = FilterSeq(min_duration, first)

\* a finished scan of a directory holding more files than the limit, in
\* which exactly limit files were probed
C8_Witness ==
  /\ limit # NoLimit
  /\ \E d \in Dirs : /\ Len(fs[d]) > limit
                     /\ task[d].status = "done"
                     /\ Len(probed[d]) = limit
                     /\ task[d].filtered_files # << >>

\* C9: after a successful parse() run, resumed ones included, the .csv and
\* the .npy form of the final manifest hold the same full set of paths: the
\* prior manifest's entries plus the newly found ones.
C9_FinalFormsAgree ==
  pc = "done" =>
    LET new == UNION {Range(task[d].filtered_files) : d \in directories}
    IN  /\ Range(final_csv.paths) = Range(prior_csv) \cup new
        /\ Range(final_npy.paths) = Range(prior_csv) \cup new

\* the paths held by any checkpoint artifact on disk
OnDisk(store) == UNION {Range(store[p]) : p \in DOMAIN store}

\* C10: when a run over several directories ends in an error after some
\* directory tasks completed, the complete result of every completed
\* directory is still in the checkpoint artifacts on disk.
C10_CompletedResultsOnDisk ==
  pc = "error" =>
    \A d \in directories : task[d].status = "done" =>
      /\ Range(task[d].filtered_files) \subseteq OnDisk(ckpt_csv)
      /\ Range(task[d].filtered_files) \subseteq OnDisk(ckpt_npy)

\* the snapshots a worker wrote inside its loop: all but the one WorkerFinish
\* appends
Intermediate(d) ==
  IF task[d].status = "done"
  THEN SubSeq(emitted[d], 1, Len(emitted[d]) - 1)
  ELSE emitted[d]

\* C11: every intermediate snapshot of a directory's scan carries a progress
\* label in {10, 20, ..., 90}; the label 100 is used only by the snapshot
\* written after all candidates are exhausted.
C11_IntermediateLabels ==
  \A d \in Dirs : \A k \in 1..Len(Intermediate(d)) :
    Intermediate(d)[k].progress \in {Tenth * m : m \in 1..(Tenth - 1)}

\* the directories for which a worker task was dispatched
Dispatched == {d \in Dirs : task[d].status # "none"}

\* C12: with an explicit directory list and a resume manifest, the set of
\* directories scanned is the explicit list minus the parent directories of
\* the prior manifest's paths.
C12_ExplicitListMinusProcessed ==
  (Resumed /\ directories_arg.given /\ pc # "init") =>
    /\ directories = directories_arg.dirs \ {dirname(prior_csv[k]) : k \in 1..Len(prior_csv)}
    /\ Dispatched = directories

\* a resumed run with an explicit list from which a processed directory was
\* removed and of which another directory was scanned to its end
C12_Witness ==
  /\ Resumed
  /\ directories_arg.given
  /\ pc = "done"
  /\ \E d \in directories_arg.dirs : d \in ProcessedDirectories /\ task[d].status = "none"
  /\ \E d \in directories_arg.dirs : task[d].status = "done"

\* C13: with an explicit directory list and no resume manifest, worker tasks
\* are dispatched for exactly the directories of the list.
C13_ExplicitListScanned ==
  (last_file_path = "None" /\ directories_arg.given /\ pc # "init") =>
    /\ directories = directories_arg.dirs
    /\ Dispatched = directories_arg.dirs

\* worker d wrote a snapshot with label p that held paths
WroteLabel(d, p) ==
  \E k \in 1..Len(emitted[d]) :
    emitted[d][k].progress = p /\ emitted[d][k].paths # << >>

\* C14: checkpoint files are keyed by job name, limit label and percent, not
\* by directory: of two directories whose workers both wrote the artifact of
\* one percent, the artifact holds the entries of at most one, and an
\* interleaving of two concurrent scans is reachable in which one worker's
\* artifact was overwritten by the other's and holds none of its entries.
C14_OneSlotPerPercent ==
  \A p \in DOMAIN ckpt_csv : \A d1, d2 \in Dirs :
    (d1 < d2 /\ WroteLabel(d1, p) /\ WroteLabel(d2, p)) =>
      \/ {f \in Range(ckpt_csv[p]) : dirname(f) = d1} = {}
      \/ {f \in Range(ckpt_csv[p]) : dirname(f) = d2} = {}

\* two scans are running, both wrote the artifact of a percent, and it now
\* holds the second worker's entries and none of the first's
C14_Witness ==
  \E p \in DOMAIN ckpt_csv : \E d1, d2 \in Dirs :
    /\ d1 # d2
    /\ task[d1].status = "running"
    /\ task[d2].status = "running"
    /\ WroteLabel(d1, p)
    /\ WroteLabel(d2, p)
    /\ {f \in Range(ckpt_csv[p]) : dirname(f) = d1} = {}
    /\ {f \in Range(ckpt_csv[p]) : dirname(f) = d2} # {}
    /\ ckpt_npy[p] = ckpt_csv[p]

\* the snapshot due after the k-th file of directory d: its percent and the
\* entries kept among the first k files
DueSnapshot(d, k) ==
  [progress |-> Progress(k, Len(task[d].audio_files)),
   paths |-> FilterSeq(min_duration, SubSeq(task[d].audio_files, 1, k))]

\* C15: in a directory of T >= 10 candidates, after every k-th processed
\* file with k a multiple of floor(T/10) the worker has written an
\* intermediate snapshot of all entries kept so far, whether the probe of
\* that file succeeded, failed, or the file was rejected by the filter.
C15_SnapshotEveryTenth ==
  \A d \in Dirs :
    LET total == Len(task[d].audio_files)
    IN  (task[d].status \in {"running", "done"} /\ total >= Tenth) =>
          \A k \in 1..task[d].i :
            k % (total \div Tenth) = 0 =>
              \E n \in 1..Len(Intermediate(d)) : Intermediate(d)[n] = DueSnapshot(d, k)

\* C16: for a directory with no candidate file the worker raises no
\* division-by-zero error, writes no intermediate snapshot, writes exactly
\* the final snapshot with an empty path list and returns an empty result.
C16_EmptyDirectory ==
  \A d \in Dirs :
    (task[d].status \in {"running", "done", "failed"} /\ task[d].audio_files = << >>) =>
      /\ task[d].status # "failed"
      /\ task[d].status = "running" => emitted[d] = << >>
      /\ task[d].status = "done" =>
           /\ emitted[d] = << [progress |-> Complete, paths |-> << >>] >>
           /\ task[d].filtered_files = << >>
           /\ probed[d] = << >>

\* a finished scan of a directory without candidates, its empty final
\* snapshot on disk
C16_Witness ==
  \E d \in Dirs :
    /\ task[d].status = "done"
    /\ task[d].audio_files = << >>
    /\ Complete \in DOMAIN ckpt_csv
    /\ ckpt_csv[Complete] = << >>
    /\ ckpt_npy[Complete] = << >>

\* C17: the final unsuffixed manifest is written only after every dispatched
\* directory task has completed; if a directory task raises, the error
\* reaches the caller of parse() and no final manifest is written.
C17_FinalOnlyAfterAllTasks ==
  /\ (final_csv.written \/ final_npy.written) =>
       /\ pc = "done"
       /\ \A d \in directories : task[d].status = "done"
  /\ (\E d \in Dirs : task[d].status = "failed") =>
       /\ pc \in {"pool", "error"}
       /\ ~final_csv.written
       /\ ~final_npy.written
       /\ (AllEnded => (ENABLED ParseJoinRaise \/ pc = "error"))
  /\ pc = "done" => (final_csv.written /\ final_npy.written)

\* a run in which one directory task completed with a result, another
\* raised, and parse() ended in the error without a final manifest
C17_Witness ==
  /\ pc = "error"
  /\ \E d \in directories : task[d].status = "failed"
  /\ \E d \in directories : task[d].status = "done" /\ task[d].filtered_files # << >>
  /\ ~final_csv.written

\* C18: if the resume manifest cannot be read, parse() fails at startup: the
\* error reaches the caller before any worker task is dispatched and before
\* any checkpoint or manifest artifact is written.
C18_UnreadableManifestFatal ==
  last_file_path = "unreadable" =>
    /\ pc \in {"init", "error"}
    /\ (pc = "init" => ENABLED ParseReadFail /\ ~ENABLED ParseDispatch)
    /\ directories = {}
    /\ \A d \in Dirs : task[d] = Idle
    /\ ckpt_csv = NoStore
    /\ ckpt_npy = NoStore
    /\ final_csv = NoFile
    /\ final_npy = NoFile

\* parse() has raised on an unreadable manifest although the base directory
\* holds files to scan
C18_Witness ==
  /\ last_file_path = "unreadable"
  /\ pc = "error"
  /\ \E d \in subdirs : Kept(d) # << >>

\* parse() has returned the final manifest or raised
Ended == pc \in {"done", "error"}

\* C19: for a finite work list of directories with finitely many candidate
\* files and a probe that always returns or fails, every dispatched worker
\* task eventually ends and parse() eventually returns the final manifest or
\* raises; it does not wait forever on the pool join.
C19_ParseTerminates == <>(Ended /\ AllEnded)

\* parse() has raised after the join although one task had raised while
\* another ran to its end
C19_Witness ==
  /\ pc = "error"
  /\ \E d \in directories : task[d].status = "failed"
  /\ \E d \in directories : task[d].status = "done" /\ Len(task[d].audio_files) >= Tenth

====
